---- MODULE Spec2Model ----
(***************************************************************************)
(* quake3-native-vm: the native_vm! trampoline (src/src/lib.rs) and the    *)
(* game_module! opcode dispatcher (src/src/qagame.rs).                     *)
(*                                                                         *)
(* The host calls the two exported functions dllEntry and vmMain.  The     *)
(* registry _VM_IMPL is an RwLock<Option<Box<dyn NativeVM>>>.              *)
(*                                                                         *)
(* A panic raised inside either extern "C" function never hands a value    *)
(* back to the host: the function aborts on unwind, and where a toolchain  *)
(* lets the panic unwind out of it, the host has no handler and the        *)
(* runtime aborts.  The model records the panic in `fatal`; no action is   *)
(* enabled afterwards.                                                     *)
(***************************************************************************)
EXTENDS Integers, Sequences, FiniteSets, TLC

(* ---------------------------------------------------------------- bounds *)

\* Host threads that may call the entry points at the same time (SpecConc).
NumThreads == 2
\* dllEntry calls that construct an instance in one run.
MaxEntries == 2

Threads == 1..NumThreads
\* The engine's single calling thread (Spec).
MainThread == {t \in Threads : \A u \in Threads : t <= u}

(* ---------------------------------------------------------------- inputs *)

\* Syscall values the host may hand to dllEntry (opaque function pointers).
Syscalls == {"syscallA", "syscallB"}

\* command: the eleven Exports discriminants and one integer on each side.
Commands == -1..11

\* arg0..arg2 are the arguments the dispatcher reads.
Heads ==
    ({0, 7} \X {0, 7} \X {0, 7}) \cup {<<1000, 42, 0>>, <<1, 1, 1>>, <<-1, -1, -1>>}

\* arg3..arg11: all zero, or each position carrying its own index.
Tails == {[i \in 1..9 |-> 0], [i \in 1..9 |-> i + 2]}

\* The twelve arguments of one vmMain call; args[i + 1] is arg<i>.
ArgTuples == {h \o tl : h \in Heads, tl \in Tails}

\* Inputs of the concurrent specification.
ConcSyscalls == {"syscallA"}
ConcCommands == {0, 1, 2, 11}
ConcArgTuples ==
    {<<7, 0, 7>> \o [i \in 1..9 |-> i + 2], <<0, 7, 0>> \o [i \in 1..9 |-> 0]}

\* The calls the host makes through the proxy library.
ProxyCommands == {0, 1, 2}
ProxyArgTuples == {<<7, 0, 7>> \o [i \in 1..9 |-> i + 2]}

\* Values client_connect of a Module may return (intptr_t).
ConnectResults == {-1, 0, 5}

(* ------------------------------------------------------- Option / Result *)

None == [tag |-> "None"]
Some(v) == [tag |-> "Some", val |-> v]
Ok(v) == [tag |-> "Ok", val |-> v]
Err(e) == [tag |-> "Err", err |-> e]

(* ---------------------------------------------------------------- qagame *)

\* enum Exports: the variant with discriminant d is ExportsVariants[d + 1].
ExportsVariants ==
    << "GAME_INIT", "GAME_SHUTDOWN", "GAME_CLIENT_CONNECT", "GAME_CLIENT_BEGIN",
       "GAME_CLIENT_USERINFO_CHANGED", "GAME_CLIENT_DISCONNECT",
       "GAME_CLIENT_COMMAND", "GAME_CLIENT_THINK", "GAME_RUN_FRAME",
       "GAME_CONSOLE_COMMAND", "BOTAI_START_FRAME" >>

\* The integers of the closed set.
ExportsDiscriminants == {d \in Int : d + 1 \in DOMAIN ExportsVariants}

\* Fault: a conversion with a catch-all arm that accepts every integer.
ExportsTryFromAny(cmd) ==
    IF cmd = 1 THEN Ok("GAME_SHUTDOWN") ELSE Ok("GAME_INIT")

\* impl TryFrom<c_int> for Exports
ExportsTryFrom(cmd) ==
    CASE cmd = 0 -> Ok("GAME_INIT")
      [] cmd = 1 -> Ok("GAME_SHUTDOWN")
      [] OTHER -> Err("Unknown command")

VoidResult == [ty |-> "void"]
BoolResult(b) == [ty |-> "bool", b |-> b]
IntResult(v) == [ty |-> "int", v |-> v]

\* What each method of trait Module may hand back.
ModuleResults(method) ==
    CASE method = "client_connect" -> {IntResult(v) : v \in ConnectResults}
      [] method \in {"console_command", "botai_start_frame"} ->
            {BoolResult(b) : b \in BOOLEAN}
      [] OTHER -> {VoidResult}

Invoke(method, params) == [kind |-> "invoke", method |-> method, params |-> params]
Panic(diag) == [kind |-> "panic", diag |-> diag]

\* Fault: truth values read as "positive" instead of "nonzero".
WrapperArmNoBool(decoded, args) ==
    IF decoded.tag = "Err" THEN Panic("Unknown game command")
    ELSE CASE decoded.val = "GAME_INIT" ->
                Invoke("init", [level_time |-> args[1], random_seed |-> args[2],
                                restart |-> args[3] > 0])
           [] decoded.val = "GAME_SHUTDOWN" ->
                Invoke("shutdown", [restart |-> args[1] > 0])
           [] OTHER -> Panic("Game command not implemented")

\* ModuleWrapper::vm_main: the match arm taken for a decoded command.
WrapperArm(decoded, args) ==
    IF decoded.tag = "Err" THEN Panic("Unknown game command")
    ELSE CASE decoded.val = "GAME_INIT" ->
                Invoke("init", [level_time |-> args[1], random_seed |-> args[2],
                                restart |-> args[3] # 0])
           [] decoded.val = "GAME_SHUTDOWN" ->
                Invoke("shutdown", [restart |-> args[1] # 0])
           [] decoded.val = "GAME_CLIENT_CONNECT" ->
                Invoke("client_connect", [client_number |-> args[1],
                                          first_time |-> args[2] # 0,
                                          is_bot |-> args[3] # 0])
           [] decoded.val = "GAME_CLIENT_THINK" ->
                Invoke("client_think", [client_number |-> args[1]])
           [] decoded.val = "GAME_CLIENT_USERINFO_CHANGED" ->
                Invoke("client_userinfo_changed", [client_number |-> args[1]])
           [] decoded.val = "GAME_CLIENT_DISCONNECT" ->
                Invoke("client_disconnect", [client_number |-> args[1]])
           [] decoded.val = "GAME_CLIENT_BEGIN" ->
                Invoke("client_begin", [client_number |-> args[1]])
           [] decoded.val = "GAME_CLIENT_COMMAND" ->
                Invoke("client_command", [client_number |-> args[1]])
           [] decoded.val = "GAME_RUN_FRAME" ->
                Invoke("run_frame", [level_time |-> args[1]])
           [] decoded.val = "GAME_CONSOLE_COMMAND" ->
                Invoke("console_command", [none |-> TRUE])
           [] decoded.val = "BOTAI_START_FRAME" ->
                Invoke("botai_start_frame", [level_time |-> args[1]])
           [] OTHER -> Panic("Game command not implemented")

\* Fault: the arms without result evaluate to 1.
WrapperReturnOne(method, typed) ==
    CASE typed.ty = "int" -> typed.v
      [] typed.ty = "bool" -> IF typed.b THEN 1 ELSE 0
      [] OTHER -> 1

\* ModuleWrapper::vm_main: the intptr_t each arm evaluates to.
WrapperReturn(method, typed) ==
    CASE method = "client_connect" -> typed.v
      [] method \in {"console_command", "botai_start_frame"} ->
            IF typed.b THEN 1 ELSE 0
      [] OTHER -> 0

(* ------------------------------------------------------------- native_vm *)

\* An instance built by $ty::dll_entry(syscall); id counts the constructions.
Instance(id, syscall) == [id |-> id, syscall |-> syscall]

\* Fault: an empty slot answers 0 instead of panicking.
TrampolineUnwrapOrDefault(data) ==
    IF data.tag = "None" THEN [kind |-> "return", value |-> 0]
    ELSE [kind |-> "call", inst |-> data.val]

\* vmMain: data.as_ref().unwrap()
TrampolineUnwrap(data) ==
    IF data.tag = "None"
    THEN Panic("called Option::unwrap() on a None value")
    ELSE [kind |-> "call", inst |-> data.val]

\* Fault: the arguments are forwarded one position late.
TrampolineForwardShifted(inst, command, args) ==
    [inst |-> inst, command |-> command,
     args |-> <<command>> \o SubSeq(args, 1, Len(args) - 1)]

\* vmMain: .vm_main(command, arg0, ..., arg11)
TrampolineForward(inst, command, args) ==
    [inst |-> inst, command |-> command, args |-> args]

\* Fault: a second dllEntry is ignored.
StoreOnce(old, inst) == IF old.tag = "None" THEN Some(inst) ELSE old

\* Fault: a second dllEntry tears the instance down.
StoreToggle(old, inst) == IF old.tag = "None" THEN Some(inst) ELSE None

\* dllEntry: *VM_IMPL = Some(...)
Store(old, inst) == Some(inst)

(* ----------------------------------------------------------------- state *)

VARIABLES
    slot,        \* content of _VM_IMPL: None or Some(instance)
    lock,        \* the RwLock: [writer |-> thread or 0, readers |-> set]
    entries,     \* the syscall of each construction, in order (history)
    fatal,       \* the panic that ended the process, or [kind |-> "none"]
    pc,          \* pc[t]: where host thread t is
    call,        \* call[t]: the entry point t called and its arguments
    pending,     \* pending[t]: the instance constructed by the dllEntry call of t
    forwarded,   \* forwarded[t]: the vm_main invocations made by the vmMain call of t
    invoked,     \* invoked[t]: the Module methods invoked by that vm_main
    typed,       \* typed[t]: what the Module method returned
    vmret,       \* vmret[t]: what vm_main of the instance returned
    ret,         \* ret[t]: what the entry point returned to the host
    last,        \* the host call that completed most recently
    sec,         \* the secondary library of the proxy: image, handles, its registry
    frame,       \* frame[t]: the locals of ProxyModule::dll_entry run by t
    relayed,     \* relayed[t]: the calls of the secondary vmMain made for t
    secret       \* secret[t]: what the secondary vmMain returned

\* The state only the Library Proxy uses.
proxyVars == <<sec, frame, relayed, secret>>

vars == <<slot, lock, entries, fatal, pc, call, pending, forwarded,
          invoked, typed, vmret, ret, last, sec, frame, relayed, secret>>

\* Instances constructed so far.
constructed == Len(entries)

NoCall == [op |-> "none"]
NoFatal == [kind |-> "none"]
NoThread == 0

Alive == fatal = NoFatal

\* What the file at the path of the secondary library is.
Targets == {"valid", "missing", "no_dllEntry", "no_vmMain"}

NoFrame == [lib |-> 0, dll_entry |-> FALSE]

\* The secondary library before its first load; nothing of it is mapped.
Unloaded(target) ==
    [target |-> target, loads |-> 0, handles |-> {}, slot |-> None, inits |-> <<>>]

InitProxyVars(targets) ==
    /\ sec \in {Unloaded(k) : k \in targets}
    /\ frame = [t \in Threads |-> NoFrame]
    /\ relayed = [t \in Threads |-> <<>>]
    /\ secret = [t \in Threads |-> <<>>]

InitRegistry ==
    /\ slot = None
    /\ lock = [writer |-> NoThread, readers |-> {}]
    /\ entries = <<>>
    /\ fatal = NoFatal
    /\ pc = [t \in Threads |-> "idle"]
    /\ call = [t \in Threads |-> NoCall]
    /\ pending = [t \in Threads |-> None]
    /\ forwarded = [t \in Threads |-> <<>>]
    /\ invoked = [t \in Threads |-> <<>>]
    /\ typed = [t \in Threads |-> <<>>]
    /\ vmret = [t \in Threads |-> <<>>]
    /\ ret = [t \in Threads |-> <<>>]
    /\ last = NoCall

\* native_vm!(ModuleWrapper): the proxy state stays as it is.
Init == InitRegistry /\ InitProxyVars({"valid"})

\* native_vm!(ProxyModule), for each kind of file at the path.
InitProxy == InitRegistry /\ InitProxyVars(Targets)

(* -------------------------------------------------------------- dllEntry *)

\* Where a dllEntry call is before its instance exists.
Constructing ==
    {"de_write", "de_construct", "px_get_entry", "px_call_entry", "px_get_main"}

\* dlclose of handle h; the image goes with its last handle, and its statics
\* with it.
CloseHandle(s, h) ==
    [s EXCEPT !.handles = @ \ {h},
              !.slot = IF s.handles \ {h} = {} THEN None ELSE @]

\* Dropping the previous content of the slot: a ProxyModule drops its
\* RentSymbol, the symbol first and then the Library it was resolved from.
DropInstance(s, old) ==
    IF old.tag = "Some" /\ "lib" \in DOMAIN old.val
    THEN CloseHandle(s, old.val.lib)
    ELSE s

\* The host calls dllEntry(syscall).
DllEntryCall(t, syscall) ==
    /\ Alive
    /\ pc[t] = "idle"
    /\ constructed + Cardinality({u \in Threads : pc[u] \in Constructing})
          < MaxEntries
    /\ pc' = [pc EXCEPT ![t] = "de_write"]
    /\ call' = [call EXCEPT ![t] = [op |-> "dllEntry", syscall |-> syscall]]
    /\ UNCHANGED <<slot, lock, entries, fatal, pending, forwarded, invoked,
                   typed, vmret, ret, last>>
    /\ UNCHANGED proxyVars

\* Fault: the writer does not wait for the readers to leave.
DllEntryWriteNoWait(t) ==
    /\ Alive
    /\ pc[t] = "de_write"
    /\ lock.writer = NoThread
    /\ lock' = [lock EXCEPT !.writer = t]
    /\ pc' = [pc EXCEPT ![t] = "de_construct"]
    /\ UNCHANGED <<slot, entries, fatal, call, pending, forwarded, invoked,
                   typed, vmret, ret, last>>
    /\ UNCHANGED proxyVars

\* let mut VM_IMPL = _VM_IMPL.write().unwrap();  blocks while the lock is held
DllEntryWrite(t) ==
    /\ Alive
    /\ pc[t] = "de_write"
    /\ lock.writer = NoThread
    /\ lock.readers = {}
    /\ lock' = [lock EXCEPT !.writer = t]
    /\ pc' = [pc EXCEPT ![t] = "de_construct"]
    /\ UNCHANGED <<slot, entries, fatal, call, pending, forwarded, invoked,
                   typed, vmret, ret, last>>
    /\ UNCHANGED proxyVars

\* $ty::dll_entry(syscall): the right-hand side, evaluated under the write lock
DllEntryConstruct(t) ==
    /\ Alive
    /\ pc[t] = "de_construct"
    /\ entries' = Append(entries, call[t].syscall)
    /\ pending' = [pending EXCEPT ![t] = Some(Instance(constructed + 1, call[t].syscall))]
    /\ pc' = [pc EXCEPT ![t] = "de_store"]
    /\ UNCHANGED <<slot, lock, fatal, call, forwarded, invoked, typed, vmret, ret, last>>
    /\ UNCHANGED proxyVars

\* *VM_IMPL = Some(...); the guard is dropped and dllEntry returns
DllEntryStore(t) ==
    /\ Alive
    /\ pc[t] = "de_store"
    /\ slot' = Store(slot, pending[t].val)
    /\ sec' = DropInstance(sec, slot)
    /\ lock' = [lock EXCEPT !.writer = NoThread]
    /\ pc' = [pc EXCEPT ![t] = "de_returned"]
    /\ UNCHANGED <<entries, fatal, call, pending, forwarded, invoked, typed, vmret,
                   ret, last, frame, relayed, secret>>

(* ---------------------------------------------------------------- vmMain *)

\* The host calls vmMain(command, arg0, ..., arg11).
VmMainCall(t, command, args) ==
    /\ Alive
    /\ pc[t] = "idle"
    /\ pc' = [pc EXCEPT ![t] = "vm_read"]
    /\ call' = [call EXCEPT ![t] = [op |-> "vmMain", command |-> command, args |-> args]]
    /\ UNCHANGED <<slot, lock, entries, fatal, pending, forwarded, invoked,
                   typed, vmret, ret, last>>
    /\ UNCHANGED proxyVars

\* Fault: a mutual-exclusion lock, one reader at a time.
VmMainReadExclusive(t) ==
    /\ Alive
    /\ pc[t] = "vm_read"
    /\ lock.writer = NoThread
    /\ lock.readers = {}
    /\ lock' = [lock EXCEPT !.readers = @ \cup {t}]
    /\ pc' = [pc EXCEPT ![t] = "vm_unwrap"]
    /\ UNCHANGED <<slot, entries, fatal, call, pending, forwarded, invoked,
                   typed, vmret, ret, last>>
    /\ UNCHANGED proxyVars

\* let data = _VM_IMPL.read().unwrap();  blocks while a writer holds the lock
VmMainRead(t) ==
    /\ Alive
    /\ pc[t] = "vm_read"
    /\ lock.writer = NoThread
    /\ lock' = [lock EXCEPT !.readers = @ \cup {t}]
    /\ pc' = [pc EXCEPT ![t] = "vm_unwrap"]
    /\ UNCHANGED <<slot, entries, fatal, call, pending, forwarded, invoked,
                   typed, vmret, ret, last>>
    /\ UNCHANGED proxyVars

\* Fault: the arguments travel through one buffer shared by all calls, so a
\* call forwards those of the lowest thread that is inside vmMain.
VmMainUnwrapShared(t) ==
    /\ Alive
    /\ pc[t] = "vm_unwrap"
    /\ slot # None
    /\ LET first == CHOOSE u \in Threads :
                        /\ call[u].op = "vmMain"
                        /\ \A w \in Threads : call[w].op = "vmMain" => u <= w
       IN forwarded' = [forwarded EXCEPT ![t] =
              Append(@, TrampolineForward(slot.val, call[first].command, call[first].args))]
    /\ pc' = [pc EXCEPT ![t] = "vm_main"]
    /\ UNCHANGED <<slot, lock, entries, fatal, call, pending, invoked, typed,
                   vmret, ret, last>>
    /\ UNCHANGED proxyVars

\* data.as_ref().unwrap().vm_main(command, arg0, ..., arg11): unwrap and call
VmMainUnwrap(t) ==
    /\ Alive
    /\ pc[t] = "vm_unwrap"
    /\ LET u == TrampolineUnwrap(slot) IN
         CASE u.kind = "panic" ->
                /\ fatal' = [kind |-> "panic", diag |-> u.diag, thread |-> t]
                /\ UNCHANGED <<lock, pc, forwarded, ret>>
           [] u.kind = "call" ->
                /\ forwarded' = [forwarded EXCEPT ![t] =
                       Append(@, TrampolineForward(u.inst, call[t].command, call[t].args))]
                /\ pc' = [pc EXCEPT ![t] = "vm_main"]
                /\ UNCHANGED <<lock, fatal, ret>>
           [] OTHER ->
                /\ ret' = [ret EXCEPT ![t] = <<u.value>>]
                /\ lock' = [lock EXCEPT !.readers = @ \ {t}]
                /\ pc' = [pc EXCEPT ![t] = "vm_returned"]
                /\ UNCHANGED <<fatal, forwarded>>
    /\ UNCHANGED <<slot, entries, call, pending, invoked, typed, vmret, last>>
    /\ UNCHANGED proxyVars

\* ModuleWrapper::vm_main: match Exports::try_from(command) { ... }
WrapperDispatch(t) ==
    /\ Alive
    /\ pc[t] = "vm_main"
    /\ LET f == forwarded[t][Len(forwarded[t])]
           arm == WrapperArm(ExportsTryFrom(f.command), f.args)
       IN IF arm.kind = "panic"
          THEN /\ fatal' = [kind |-> "panic", diag |-> arm.diag, thread |-> t]
               /\ UNCHANGED <<pc, invoked>>
          ELSE /\ invoked' = [invoked EXCEPT ![t] =
                      Append(@, [inst |-> f.inst, method |-> arm.method,
                                 params |-> arm.params])]
               /\ pc' = [pc EXCEPT ![t] = "in_method"]
               /\ UNCHANGED fatal
    /\ UNCHANGED <<slot, lock, entries, call, pending, forwarded, typed, vmret, ret, last>>
    /\ UNCHANGED proxyVars

\* The Module method returns; the arm converts its result and vm_main returns.
MethodReturn(t) ==
    /\ Alive
    /\ pc[t] = "in_method"
    /\ LET m == invoked[t][Len(invoked[t])].method IN
         \E r \in ModuleResults(m) :
            /\ typed' = [typed EXCEPT ![t] = Append(@, r)]
            /\ vmret' = [vmret EXCEPT ![t] = Append(@, WrapperReturn(m, r))]
    /\ pc' = [pc EXCEPT ![t] = "vm_main_ret"]
    /\ UNCHANGED <<slot, lock, entries, fatal, call, pending, forwarded,
                   invoked, ret, last>>
    /\ UNCHANGED proxyVars

\* vmMain: the call of vm_main is the tail expression of the function
TrampolineReturn(v) == v

\* Fault: the instance is taken out of the slot for the call and not put back.
VmMainReturnTake(t) ==
    /\ Alive
    /\ pc[t] = "vm_main_ret"
    /\ ret' = [ret EXCEPT ![t] = <<TrampolineReturn(vmret[t][Len(vmret[t])])>>]
    /\ slot' = None
    /\ lock' = [lock EXCEPT !.readers = @ \ {t}]
    /\ pc' = [pc EXCEPT ![t] = "vm_returned"]
    /\ UNCHANGED <<entries, fatal, call, pending, forwarded, invoked,
                   typed, vmret, last>>
    /\ UNCHANGED proxyVars

\* vmMain returns to the host; the read guard is dropped.
VmMainReturn(t) ==
    /\ Alive
    /\ pc[t] = "vm_main_ret"
    /\ ret' = [ret EXCEPT ![t] = <<TrampolineReturn(vmret[t][Len(vmret[t])])>>]
    /\ lock' = [lock EXCEPT !.readers = @ \ {t}]
    /\ pc' = [pc EXCEPT ![t] = "vm_returned"]
    /\ UNCHANGED <<slot, entries, fatal, call, pending, forwarded, invoked,
                   typed, vmret, last>>
    /\ UNCHANGED proxyVars

(* ------------------------------------------------------------------ host *)

\* What the host keeps of a completed call.
Completed(t) ==
    IF call[t].op = "dllEntry"
    THEN [op |-> "dllEntry", inst |-> pending[t].val.id]
    ELSE [op |-> "vmMain", command |-> call[t].command, args |-> call[t].args,
          ret |-> ret[t], inst |-> forwarded[t][Len(forwarded[t])].inst.id]

\* The calling thread goes on after the entry point returned.
HostResume(t) ==
    /\ Alive
    /\ pc[t] \in {"de_returned", "vm_returned"}
    /\ last' = Completed(t)
    /\ pc' = [pc EXCEPT ![t] = "idle"]
    /\ call' = [call EXCEPT ![t] = NoCall]
    /\ pending' = [pending EXCEPT ![t] = None]
    /\ forwarded' = [forwarded EXCEPT ![t] = <<>>]
    /\ invoked' = [invoked EXCEPT ![t] = <<>>]
    /\ typed' = [typed EXCEPT ![t] = <<>>]
    /\ vmret' = [vmret EXCEPT ![t] = <<>>]
    /\ ret' = [ret EXCEPT ![t] = <<>>]
    /\ frame' = [frame EXCEPT ![t] = NoFrame]
    /\ relayed' = [relayed EXCEPT ![t] = <<>>]
    /\ secret' = [secret EXCEPT ![t] = <<>>]
    /\ UNCHANGED <<slot, lock, entries, fatal, sec>>

(* -------------------------------------------------------- Syscalls::error *)

\* Texts module code may hand to Syscalls::error, as bytes.
ErrorTexts == {<<72, 105>>, <<72, 0, 105>>}

\* CString::new(text): an interior nul byte is an error.
CStringNew(bytes) ==
    IF \E i \in DOMAIN bytes : bytes[i] = 0
    THEN Err("NulError")
    ELSE Ok(bytes \o <<0>>)

\* A Module method calls self.syscalls.error(text):
\* let msg = CString::new(text).unwrap(); then the host is called with G_ERROR.
SyscallsErrorCall(t, text) ==
    /\ Alive
    /\ pc[t] = "in_method"
    /\ IF CStringNew(text).tag = "Err"
       THEN /\ fatal' = [kind |-> "panic", thread |-> t,
                         diag |-> "called Result::unwrap() on an Err value"]
            /\ UNCHANGED pc
       ELSE /\ pc' = [pc EXCEPT ![t] = "in_syscall"]
            /\ UNCHANGED fatal
    /\ UNCHANGED <<slot, lock, entries, call, pending, forwarded, invoked,
                   typed, vmret, ret, last>>
    /\ UNCHANGED proxyVars

\* (self.syscall)(G_ERROR, msg): the host leaves the call by a non-local jump.
\* The frames of vmMain are abandoned with the read guard; the model does not
\* follow this host thread further.
HostErrorJumps(t) ==
    /\ Alive
    /\ pc[t] = "in_syscall"
    /\ pc' = [pc EXCEPT ![t] = "jumped"]
    /\ UNCHANGED <<slot, lock, entries, fatal, call, pending, forwarded, invoked,
                   typed, vmret, ret, last>>
    /\ UNCHANGED proxyVars

\* (self.syscall)(G_ERROR, msg): the function pointer returns an intptr_t, which
\* error() discards; error() then returns () to the module code.
HostErrorReturns(t) ==
    /\ Alive
    /\ pc[t] = "in_syscall"
    /\ pc' = [pc EXCEPT ![t] = "after_error"]
    /\ UNCHANGED <<slot, lock, entries, fatal, call, pending, forwarded, invoked,
                   typed, vmret, ret, last>>
    /\ UNCHANGED proxyVars

\* The statement of the Module method that follows the call of error() runs.
ModuleContinues(t) ==
    /\ Alive
    /\ pc[t] = "after_error"
    /\ pc' = [pc EXCEPT ![t] = "in_method"]
    /\ UNCHANGED <<slot, lock, entries, fatal, call, pending, forwarded, invoked,
                   typed, vmret, ret, last>>
    /\ UNCHANGED proxyVars

(* ----------------------------------------------------------- ProxyModule *)

\* What ProxyModule::dll_entry boxes: the RentSymbol that owns the Library
\* (handle lib) together with the vmMain symbol resolved from it.
ProxyInstance(id, syscall, lib) == [id |-> id, syscall |-> syscall, lib |-> lib]

\* lib::Library::new("target/debug/examples/hello")
LibraryNew(s) ==
    IF s.target = "missing"
    THEN Err("cannot open shared object file")
    ELSE Ok(s.loads + 1)

\* lib.get(name): the symbol of that name in the loaded image
LibraryGet(s, name) ==
    IF (name = "dllEntry" /\ s.target = "no_dllEntry")
          \/ (name = "vmMain" /\ s.target = "no_vmMain")
    THEN Err("undefined symbol")
    ELSE Ok(name)

\* Fault: the secondary library is initialised by its first load only.
SecDllEntryOnce(s, lib, syscall) ==
    IF s.inits = <<>>
    THEN [s EXCEPT !.slot = Store(s.slot, Instance(1, syscall)),
                   !.inits = Append(@, [lib |-> lib, syscall |-> syscall])]
    ELSE s

\* dllEntry of the secondary library (native_vm! in examples/hello.rs), called
\* through the symbol resolved from handle lib.
SecDllEntry(s, lib, syscall) ==
    [s EXCEPT !.slot = Store(s.slot, Instance(Len(s.inits) + 1, syscall)),
              !.inits = Append(@, [lib |-> lib, syscall |-> syscall])]

\* Fault: a symbol that does not resolve leaves a proxy without it.
RentTryNewLenient(s, lib) == Ok(lib)

\* RentSymbol::try_new(Box::new(lib), |lib| lib.get(VMMAIN_EXPORT_NAME))
RentTryNew(s, lib) ==
    IF LibraryGet(s, "vmMain").tag = "Err" THEN Err("undefined symbol") ELSE Ok(lib)

\* Fault: the Library is dropped when dll_entry ends; only the bare symbol is kept.
LibraryDroppedAtEnd(s, lib) == CloseHandle(s, lib)

\* The Library is moved into the RentSymbol: the end of dll_entry drops nothing.
LibraryMoved(s, lib) == s

\* let lib = lib::Library::new(..).unwrap();
ProxyLoad(t) ==
    /\ Alive
    /\ pc[t] = "de_construct"
    /\ LET l == LibraryNew(sec) IN
         IF l.tag = "Err"
         THEN /\ fatal' = [kind |-> "panic", thread |-> t,
                           diag |-> "called Result::unwrap() on an Err value"]
              /\ UNCHANGED <<pc, sec, frame>>
         ELSE /\ sec' = [sec EXCEPT !.loads = l.val, !.handles = @ \cup {l.val}]
              /\ frame' = [frame EXCEPT ![t] = [lib |-> l.val, dll_entry |-> FALSE]]
              /\ pc' = [pc EXCEPT ![t] = "px_get_entry"]
              /\ UNCHANGED fatal
    /\ UNCHANGED <<slot, lock, entries, call, pending, forwarded, invoked, typed,
                   vmret, ret, last, relayed, secret>>

\* Fault: a missing dllEntry symbol is passed over and construction goes on.
ProxyGetEntrySkips(t) ==
    /\ Alive
    /\ pc[t] = "px_get_entry"
    /\ IF LibraryGet(sec, "dllEntry").tag = "Err"
       THEN pc' = [pc EXCEPT ![t] = "px_get_main"]
       ELSE pc' = [pc EXCEPT ![t] = "px_call_entry"]
    /\ frame' = [frame EXCEPT ![t].dll_entry = LibraryGet(sec, "dllEntry").tag = "Ok"]
    /\ UNCHANGED <<slot, lock, entries, fatal, call, pending, forwarded, invoked,
                   typed, vmret, ret, last, sec, relayed, secret>>

\* let dll_entry: lib::Symbol<DllEntry> = lib.get(DLLENTRY_EXPORT_NAME).unwrap();
ProxyGetEntry(t) ==
    /\ Alive
    /\ pc[t] = "px_get_entry"
    /\ IF LibraryGet(sec, "dllEntry").tag = "Err"
       THEN /\ fatal' = [kind |-> "panic", thread |-> t,
                         diag |-> "called Result::unwrap() on an Err value"]
            /\ UNCHANGED <<pc, frame>>
       ELSE /\ frame' = [frame EXCEPT ![t].dll_entry = TRUE]
            /\ pc' = [pc EXCEPT ![t] = "px_call_entry"]
            /\ UNCHANGED fatal
    /\ UNCHANGED <<slot, lock, entries, call, pending, forwarded, invoked, typed,
                   vmret, ret, last, sec, relayed, secret>>

\* dll_entry(syscall);
ProxyCallEntry(t) ==
    /\ Alive
    /\ pc[t] = "px_call_entry"
    /\ sec' = SecDllEntry(sec, frame[t].lib, call[t].syscall)
    /\ pc' = [pc EXCEPT ![t] = "px_get_main"]
    /\ UNCHANGED <<slot, lock, entries, fatal, call, pending, forwarded, invoked,
                   typed, vmret, ret, last, frame, relayed, secret>>

\* match RentSymbol::try_new(..) { Ok(proxy_vm_main) => return Box::new(Self {..}),
\*                                Err(e) => panic!(..) }
ProxyGetMain(t) ==
    /\ Alive
    /\ pc[t] = "px_get_main"
    /\ LET r == RentTryNew(sec, frame[t].lib) IN
         IF r.tag = "Err"
         THEN /\ fatal' = [kind |-> "panic", thread |-> t,
                           diag |-> "couldn't rent vmMain Symbol"]
              /\ UNCHANGED <<pc, sec, entries, pending>>
         ELSE /\ pending' = [pending EXCEPT ![t] =
                     Some(ProxyInstance(constructed + 1, call[t].syscall, r.val))]
              /\ entries' = Append(entries, call[t].syscall)
              /\ sec' = LibraryMoved(sec, frame[t].lib)
              /\ pc' = [pc EXCEPT ![t] = "de_store"]
              /\ UNCHANGED fatal
    /\ UNCHANGED <<slot, lock, call, forwarded, invoked, typed, vmret, ret, last,
                   frame, relayed, secret>>

\* Fault: the proxy hands on only the arguments the game dispatcher reads.
ProxyForwardThree(lib, command, args) ==
    [lib |-> lib, command |-> command,
     args |-> [i \in DOMAIN args |-> IF i <= 3 THEN args[i] ELSE 0]]

\* (self.proxy_vm_main)(command, arg0, ..., arg11)
ProxyForward(lib, command, args) == [lib |-> lib, command |-> command, args |-> args]

\* ProxyModule::vm_main calls the resolved vmMain symbol.
ProxyRelay(t) ==
    /\ Alive
    /\ pc[t] = "vm_main"
    /\ LET f == forwarded[t][Len(forwarded[t])] IN
         relayed' = [relayed EXCEPT ![t] =
                        Append(@, ProxyForward(f.inst.lib, f.command, f.args))]
    /\ pc' = [pc EXCEPT ![t] = "sec_vm_main"]
    /\ UNCHANGED <<slot, lock, entries, fatal, call, pending, forwarded, invoked,
                   typed, vmret, ret, last, sec, frame, secret>>

\* vmMain of the secondary library: its trampoline unwraps its own registry and
\* its ModuleWrapper dispatches.  Its registry lock is never contended: its
\* dllEntry runs under the write guard of the proxy, its vmMain under a read
\* guard of the proxy.  A call through a symbol whose image is gone is a jump
\* into unmapped memory.
SecVmMain(t) ==
    /\ Alive
    /\ pc[t] = "sec_vm_main"
    /\ LET r == relayed[t][Len(relayed[t])]
           u == TrampolineUnwrap(sec.slot)
           arm == WrapperArm(ExportsTryFrom(r.command), r.args)
       IN CASE r.lib \notin sec.handles ->
                 /\ fatal' = [kind |-> "crash", thread |-> t, diag |-> "SIGSEGV"]
                 /\ UNCHANGED <<pc, invoked>>
            [] r.lib \in sec.handles /\ u.kind = "panic" ->
                 /\ fatal' = [kind |-> "panic", thread |-> t, diag |-> u.diag]
                 /\ UNCHANGED <<pc, invoked>>
            [] r.lib \in sec.handles /\ u.kind # "panic" /\ arm.kind = "panic" ->
                 /\ fatal' = [kind |-> "panic", thread |-> t, diag |-> arm.diag]
                 /\ UNCHANGED <<pc, invoked>>
            [] OTHER ->
                 /\ invoked' = [invoked EXCEPT ![t] =
                        Append(@, [inst |-> u.inst, method |-> arm.method,
                                   params |-> arm.params])]
                 /\ pc' = [pc EXCEPT ![t] = "sec_in_method"]
                 /\ UNCHANGED fatal
    /\ UNCHANGED <<slot, lock, entries, call, pending, forwarded, typed, vmret, ret,
                   last, sec, frame, relayed, secret>>

\* The Module method of the secondary library returns, and so does its vmMain.
SecMethodReturn(t) ==
    /\ Alive
    /\ pc[t] = "sec_in_method"
    /\ LET m == invoked[t][Len(invoked[t])].method IN
         \E r \in ModuleResults(m) :
            /\ typed' = [typed EXCEPT ![t] = Append(@, r)]
            /\ secret' = [secret EXCEPT ![t] =
                             Append(@, TrampolineReturn(WrapperReturn(m, r)))]
    /\ pc' = [pc EXCEPT ![t] = "sec_returned"]
    /\ UNCHANGED <<slot, lock, entries, fatal, call, pending, forwarded, invoked,
                   vmret, ret, last, sec, frame, relayed>>

\* ProxyModule::vm_main: the call of the symbol is its tail expression.
ProxyResult(v) == v

\* ProxyModule::vm_main returns to the trampoline of the proxy.
ProxyReturn(t) ==
    /\ Alive
    /\ pc[t] = "sec_returned"
    /\ vmret' = [vmret EXCEPT ![t] = Append(@, ProxyResult(secret[t][Len(secret[t])]))]
    /\ pc' = [pc EXCEPT ![t] = "vm_main_ret"]
    /\ UNCHANGED <<slot, lock, entries, fatal, call, pending, forwarded, invoked,
                   typed, ret, last, sec, frame, relayed, secret>>

(* -------------------------------------------------------- specifications *)

Step(t, syscalls, commands, argTuples) ==
    \/ \E s \in syscalls : DllEntryCall(t, s)
    \/ DllEntryWrite(t)
    \/ DllEntryConstruct(t)
    \/ DllEntryStore(t)
    \/ \E c \in commands, a \in argTuples : VmMainCall(t, c, a)
    \/ VmMainRead(t)
    \/ VmMainUnwrap(t)
    \/ WrapperDispatch(t)
    \/ MethodReturn(t)
    \/ VmMainReturn(t)
    \/ HostResume(t)

\* One host thread calls the entry points one after the other.
Next == \E t \in MainThread : Step(t, Syscalls, Commands, ArgTuples)

Spec == Init /\ [][Next]_vars

\* Several host threads call the entry points at the same time.
NextConc == \E t \in Threads : Step(t, ConcSyscalls, ConcCommands, ConcArgTuples)

SpecConc == Init /\ [][NextConc]_vars

\* A step of thread t inside dllEntry or vmMain.  The entry points create no
\* thread and wait for nothing but the lock, so a thread inside one takes its
\* next step whenever that step stays possible.
Progress(t) ==
    \/ DllEntryWrite(t)
    \/ DllEntryConstruct(t)
    \/ DllEntryStore(t)
    \/ VmMainRead(t)
    \/ VmMainUnwrap(t)
    \/ WrapperDispatch(t)
    \/ MethodReturn(t)
    \/ VmMainReturn(t)

\* Several host threads under a scheduler that runs every thread that can run.
\* std::sync::RwLock states no order among the threads waiting for it: write()
\* and read() return when the lock can be taken at the moment the thread tries.
\* The host is free to issue calls or not.
SpecLive == Init /\ [][NextConc]_vars /\ \A t \in Threads : WF_vars(Progress(t))

\* One host thread; the Module methods may call Syscalls::error.
NextErr ==
    \E t \in MainThread :
        \/ Step(t, ConcSyscalls, ConcCommands, ConcArgTuples)
        \/ \E text \in ErrorTexts : SyscallsErrorCall(t, text)
        \/ HostErrorJumps(t)
        \/ HostErrorReturns(t)
        \/ ModuleContinues(t)

SpecErr == Init /\ [][NextErr]_vars

\* native_vm!(ProxyModule): several host threads call the entry points of the
\* proxy library.
NextProxy ==
    \E t \in Threads :
        \/ \E s \in Syscalls : DllEntryCall(t, s)
        \/ DllEntryWrite(t)
        \/ ProxyLoad(t)
        \/ ProxyGetEntry(t)
        \/ ProxyCallEntry(t)
        \/ ProxyGetMain(t)
        \/ DllEntryStore(t)
        \/ \E c \in ProxyCommands, a \in ProxyArgTuples : VmMainCall(t, c, a)
        \/ VmMainRead(t)
        \/ VmMainUnwrap(t)
        \/ ProxyRelay(t)
        \/ SecVmMain(t)
        \/ SecMethodReturn(t)
        \/ ProxyReturn(t)
        \/ VmMainReturn(t)
        \/ HostResume(t)

SpecProxy == InitProxy /\ [][NextProxy]_vars

(* ---------------------------------------------------------------- claims *)

\* Thread t raised the panic that ended the process.
Panicked(t) == fatal.kind = "panic" /\ fatal.thread = t

\* The instance behind the trampoline has received the call of t and its
\* dispatcher has decided it.
Dispatched(t) ==
    /\ call[t].op = "vmMain"
    /\ forwarded[t] # <<>>
    /\ pc[t] # "vm_main" \/ Panicked(t)

UnwrapNoneDiag == "called Option::unwrap() on a None value"

\* A step taken by thread t.
StepOf(t) ==
    \/ pc'[t] # pc[t]
    \/ fatal' # fatal /\ fatal'.kind = "panic" /\ fatal'.thread = t

\* C1: a vmMain call that finds the registry slot empty ends the process with
\* the unwrap panic; it returns no integer to the host, calls no vm_main and
\* invokes no Module method.
C1_DispatchBeforeInitIsFatal ==
    /\ [](\A t \in Threads :
            (call[t].op = "vmMain" /\ slot = None) =>
                /\ pc[t] \in {"vm_read", "vm_unwrap"}
                /\ ret[t] = <<>> /\ forwarded[t] = <<>> /\ invoked[t] = <<>>)
    /\ [][\A t \in Threads :
            (pc[t] = "vm_unwrap" /\ slot = None /\ StepOf(t)) =>
                /\ fatal'.kind = "panic"
                /\ fatal'.thread = t
                /\ fatal'.diag = UnwrapNoneDiag
                /\ pc'[t] = "vm_unwrap"
                /\ ret'[t] = <<>> /\ forwarded'[t] = <<>> /\ invoked'[t] = <<>>]_vars

C1_Witness ==
    \E t \in Threads :
        /\ Panicked(t)
        /\ fatal.diag = UnwrapNoneDiag
        /\ call[t].op = "vmMain"
        /\ slot = None
        /\ ret[t] = <<>>

\* The typed call the qagame contract assigns to an opcode of the closed set.
TypedCall(command, args) ==
    CASE command = 0 -> [method |-> "init",
                         params |-> [level_time |-> args[1], random_seed |-> args[2],
                                     restart |-> args[3] # 0]]
      [] command = 1 -> [method |-> "shutdown", params |-> [restart |-> args[1] # 0]]
      [] command = 2 -> [method |-> "client_connect",
                         params |-> [client_number |-> args[1],
                                     first_time |-> args[2] # 0,
                                     is_bot |-> args[3] # 0]]
      [] command = 3 -> [method |-> "client_begin",
                         params |-> [client_number |-> args[1]]]
      [] command = 4 -> [method |-> "client_userinfo_changed",
                         params |-> [client_number |-> args[1]]]
      [] command = 5 -> [method |-> "client_disconnect",
                         params |-> [client_number |-> args[1]]]
      [] command = 6 -> [method |-> "client_command",
                         params |-> [client_number |-> args[1]]]
      [] command = 7 -> [method |-> "client_think",
                         params |-> [client_number |-> args[1]]]
      [] command = 8 -> [method |-> "run_frame", params |-> [level_time |-> args[1]]]
      [] command = 9 -> [method |-> "console_command", params |-> [none |-> TRUE]]
      [] command = 10 -> [method |-> "botai_start_frame",
                          params |-> [level_time |-> args[1]]]

\* The Module methods invoked for the call of t, without the instance.
InvokedCalls(t) ==
    [i \in DOMAIN invoked[t] |->
        [method |-> invoked[t][i].method, params |-> invoked[t][i].params]]

\* C2: for every opcode 0..10 and every argument tuple, the dispatcher invokes
\* the corresponding typed Module method exactly once, integers passed through
\* and truth values true exactly when the integer is nonzero.
C2_EveryOpcodeInvokesItsMethod ==
    \A t \in Threads :
        (Dispatched(t) /\ call[t].command \in ExportsDiscriminants) =>
            InvokedCalls(t) = <<TypedCall(call[t].command, call[t].args)>>

\* C3: an opcode outside 0..10 ends the process with the unknown-command panic;
\* nothing is returned to the host and no Module method is invoked.
C3_UnknownOpcodeIsFatal ==
    \A t \in Threads :
        (Dispatched(t) /\ call[t].command \notin ExportsDiscriminants) =>
            /\ Panicked(t)
            /\ fatal.diag = "Unknown game command"
            /\ ret[t] = <<>> /\ vmret[t] = <<>> /\ invoked[t] = <<>>

C3_Witness ==
    \E t \in Threads :
        /\ Dispatched(t)
        /\ call[t].command = 11
        /\ Panicked(t)
        /\ fatal.diag = "Unknown game command"

\* C4: the unknown-command outcome occurs only for integers outside 0..10; an
\* opcode of the set that is not handled ends with the not-implemented outcome.
C4_UnknownOnlyOutsideTheSet ==
    \A t \in Threads :
        (Dispatched(t) /\ Panicked(t)) =>
            /\ fatal.diag = "Unknown game command" =>
                    call[t].command \notin ExportsDiscriminants
            /\ call[t].command \in ExportsDiscriminants =>
                    fatal.diag = "Game command not implemented"

VoidMethods ==
    {"init", "shutdown", "client_think", "client_userinfo_changed",
     "client_disconnect", "client_begin", "client_command", "run_frame"}

BoolMethods == {"console_command", "botai_start_frame"}

\* C5: when the dispatched Module method returns, the host receives 0 for a
\* method without result, 1 or 0 for a boolean method returning true or false,
\* and the integer of client_connect unchanged.
C5_ResultConversion ==
    \A t \in Threads :
        (pc[t] = "vm_returned" /\ invoked[t] # <<>>) =>
            /\ Len(invoked[t]) = 1 /\ Len(typed[t]) = 1 /\ Len(ret[t]) = 1
            /\ LET m == invoked[t][1].method
                   r == typed[t][1]
               IN  /\ m \in VoidMethods => ret[t][1] = 0
                   /\ m \in BoolMethods => ret[t][1] = (IF r.b THEN 1 ELSE 0)
                   /\ m = "client_connect" => ret[t][1] = r.v

C5_Witness ==
    \E t \in Threads :
        /\ pc[t] = "vm_returned"
        /\ invoked[t] # <<>>
        /\ invoked[t][1].method = "init"
        /\ typed[t] = <<VoidResult>>
        /\ ret[t] = <<0>>

\* The vmMain call of t, with `command`, has been decided or has returned.
Served(t, command) == Dispatched(t) /\ call[t].command = command

\* C6: once dllEntry has stored an instance, vmMain(GAME_INIT, a0, a1, a2, ...)
\* returns 0 and init observes level_time = a0, random_seed = a1 and
\* restart = (a2 # 0); vmMain(GAME_SHUTDOWN, b0, ...) returns 0 and shutdown
\* observes restart = (b0 # 0); both on the instance dllEntry stored.
C6_InitThenShutdown ==
    \A t \in Threads :
        /\ Served(t, 0) =>
              /\ ~Panicked(t)
              /\ slot # None
              /\ invoked[t] =
                    <<[inst |-> slot.val, method |-> "init",
                       params |-> [level_time |-> call[t].args[1],
                                   random_seed |-> call[t].args[2],
                                   restart |-> call[t].args[3] # 0]]>>
              /\ pc[t] = "vm_returned" => ret[t] = <<0>>
        /\ Served(t, 1) =>
              /\ ~Panicked(t)
              /\ slot # None
              /\ invoked[t] =
                    <<[inst |-> slot.val, method |-> "shutdown",
                       params |-> [restart |-> call[t].args[1] # 0]]>>
              /\ pc[t] = "vm_returned" => ret[t] = <<0>>

\* GAME_INIT with 1000, 42, 0 has returned 0 and the following GAME_SHUTDOWN
\* with 1 has returned 0 after shutdown observed restart = true.
C6_Witness ==
    \E t \in Threads :
        /\ pc[t] = "vm_returned"
        /\ Served(t, 1)
        /\ call[t].args[1] = 1
        /\ invoked[t][1].params.restart = TRUE
        /\ ret[t] = <<0>>
        /\ last.op = "vmMain"
        /\ last.command = 0
        /\ SubSeq(last.args, 1, 3) = <<1000, 42, 0>>
        /\ last.ret = <<0>>
        /\ last.inst = invoked[t][1].inst.id

\* C7: with an instance in the slot, vmMain calls vm_main of that instance
\* exactly once with the same command and the same twelve arguments in the
\* same positions, and returns exactly what that call returned.
C7_TrampolineForwardsVerbatim ==
    \A t \in Threads :
        (call[t].op = "vmMain" /\ slot # None /\ pc[t] \notin {"vm_read", "vm_unwrap"}) =>
            /\ forwarded[t] =
                  <<[inst |-> slot.val, command |-> call[t].command,
                     args |-> call[t].args]>>
            /\ Len(vmret[t]) <= 1
            /\ pc[t] = "vm_returned" => (Len(vmret[t]) = 1 /\ ret[t] = vmret[t])
            /\ pc[t] # "vm_returned" => ret[t] = <<>>

C7_Witness ==
    \E t \in Threads :
        /\ pc[t] = "vm_returned"
        /\ call[t].op = "vmMain"
        /\ call[t].args[12] = 11
        /\ Len(forwarded[t]) = 1
        /\ forwarded[t][1].args = call[t].args
        /\ ret[t] = vmret[t]

\* C8: the slot is written by exactly one transition, the first dllEntry; once
\* it holds an instance no later dllEntry changes the instance it holds.
C8_NoWriteAfterFirstWrite == [][slot # None => slot' = slot]_vars

\* C9: a second dllEntry replaces the instance: every vmMain call made after
\* it returned is served by the instance the latest dllEntry constructed,
\* never by an earlier instance and never by an empty slot.
C9_SecondEntryReplaces ==
    \A t \in Threads :
        (call[t].op = "vmMain" /\ constructed >= 2) =>
            /\ slot = Some(Instance(constructed, entries[constructed]))
            /\ ~(Panicked(t) /\ fatal.diag = UnwrapNoneDiag)
            /\ pc[t] \notin {"vm_read", "vm_unwrap"} =>
                  /\ Len(forwarded[t]) = 1
                  /\ forwarded[t][1].inst = Instance(constructed, entries[constructed])
                  /\ \A i \in DOMAIN invoked[t] :
                        invoked[t][i].inst = Instance(constructed, entries[constructed])

C9_Witness ==
    \E t \in Threads :
        /\ pc[t] = "vm_returned"
        /\ call[t].op = "vmMain"
        /\ constructed = 2
        /\ entries[1] # entries[2]
        /\ forwarded[t][1].inst = Instance(2, entries[2])
        /\ invoked[t][1].inst = Instance(2, entries[2])

\* C10: once the slot holds an instance it holds one in every later state.
C10_NeverUninitializedAgain == [][slot # None => slot' # None]_vars

C10_Witness ==
    /\ slot # None
    /\ slot.val.id = 2
    /\ \E t \in Threads : pc[t] = "de_returned"
    /\ \E t \in Threads : pc[t] = "in_method"

\* Thread t is inside vm_main of the instance, under its read guard.
InsideVmMain(t) == pc[t] \in {"vm_main", "in_method", "vm_main_ret"} /\ ~Panicked(t)

\* C11: after a single dllEntry, vmMain calls running at the same time are all
\* served by that one instance, and each forwards its own command and
\* arguments, invokes the method of its own opcode and returns its own result.
C11_ConcurrentCallsKeepTheirOwn ==
    constructed = 1 =>
        \A t \in Threads :
            (call[t].op = "vmMain" /\ pc[t] \notin {"vm_read", "vm_unwrap"}) =>
                /\ slot = Some(Instance(1, entries[1]))
                /\ forwarded[t] =
                      <<[inst |-> Instance(1, entries[1]), command |-> call[t].command,
                         args |-> call[t].args]>>
                /\ (Dispatched(t) /\ call[t].command \in {0, 1}) =>
                      /\ ~Panicked(t)
                      /\ InvokedCalls(t) = <<TypedCall(call[t].command, call[t].args)>>
                      /\ invoked[t][1].inst = Instance(1, entries[1])
                      /\ pc[t] = "vm_returned" => ret[t] = <<0>>
                /\ (Dispatched(t) /\ call[t].command \notin {0, 1}) =>
                      /\ Panicked(t)
                      /\ ret[t] = <<>> /\ invoked[t] = <<>>

C11_Witness ==
    /\ constructed = 1
    /\ \E t, u \in Threads :
          /\ t # u
          /\ pc[t] = "in_method" /\ pc[u] = "vm_returned"
          /\ call[t].command = 0 /\ call[u].command = 1
          /\ call[t].args # call[u].args
          /\ invoked[t][1].inst = invoked[u][1].inst
          /\ invoked[t][1].params.restart # invoked[u][1].params.restart

\* C12: with an instance stored and no dllEntry in progress or waiting, a
\* vmMain call that asks for the read lock gets it, whatever the other vmMain
\* calls are doing.
C12_ReadersNotSerialized ==
    \A t \in Threads :
        ( /\ Alive
          /\ pc[t] = "vm_read"
          /\ slot # None
          /\ \A u \in Threads : pc[u] \notin {"de_write", "de_construct", "de_store"} ) =>
            ENABLED VmMainRead(t)

\* Two vmMain calls are inside vm_main at the same time.
C12_Witness ==
    /\ Cardinality({t \in Threads : InsideVmMain(t)}) >= 2
    /\ Cardinality(lock.readers) >= 2
    /\ Alive

\* C19: no vmMain call reads the slot or runs vm_main while a dllEntry call is
\* constructing or storing an instance; the instance a call is served by is
\* the complete instance the slot holds.
C19_WriteExcludesReads ==
    /\ \A t, u \in Threads :
          ~( /\ pc[t] \in {"vm_unwrap", "vm_main", "in_method", "vm_main_ret"}
             /\ pc[u] \in {"de_construct", "de_store"} )
    /\ \A t \in Threads :
          (pc[t] \in {"vm_main", "in_method", "vm_main_ret"}) =>
              /\ slot = Some(forwarded[t][1].inst)
              /\ \E i \in 1..constructed : forwarded[t][1].inst = Instance(i, entries[i])

\* A dllEntry call waits for the write lock while a vmMain call is served.
C19_Witness ==
    \E t, u \in Threads :
        /\ pc[t] = "in_method"
        /\ pc[u] = "de_write"
        /\ t \in lock.readers
        /\ lock.writer = NoThread

\* C20: no step of a vmMain call changes the slot, whether the call returns or
\* panics; the slot changes only in the store of a dllEntry call.
C20_VmMainLeavesTheSlot ==
    [][ /\ \A t \in Threads : (call[t].op = "vmMain" /\ StepOf(t)) => slot' = slot
        /\ slot' # slot =>
              \E t \in Threads : pc[t] = "de_store" /\ pc'[t] = "de_returned" ]_vars

C20_Witness ==
    \E t \in Threads :
        /\ pc[t] = "vm_returned"
        /\ call[t].op = "vmMain"
        /\ ret[t] = <<0>>
        /\ slot = Some(forwarded[t][1].inst)

\* C17: once module code has called Syscalls::error, control never comes back
\* to the caller and no statement after the call runs.
C17_ErrorNeverReturns == \A t \in Threads : pc[t] # "after_error"

(* ---------------------------------------------- claims on the ProxyModule *)

\* The calls of the secondary dllEntry made through library handle h.
InitsFor(h) == {i \in DOMAIN sec.inits : sec.inits[i].lib = h}

\* The secondary dllEntry ran exactly once for proxy instance p, with the
\* callback p was constructed with.
InitialisedOnce(p) ==
    \E i \in InitsFor(p.lib) : InitsFor(p.lib) = {i} /\ sec.inits[i].syscall = p.syscall

\* A vmMain call of t is inside ProxyModule::vm_main.
InsideProxy(t) ==
    pc[t] \in {"vm_main", "sec_vm_main", "sec_in_method", "sec_returned"}

\* C13: every construction of a proxy on a valid secondary library calls the
\* dllEntry of that library exactly once, with the callback the proxy itself
\* received, before the construction returns: before the proxy is stored and
\* before any call is relayed through it.
C13_SecondaryInitOncePerConstruction ==
    sec.target = "valid" =>
        /\ Len(sec.inits) =
              constructed + Cardinality({t \in Threads : pc[t] = "px_get_main"})
        /\ \A t \in Threads :
              /\ pc[t] \in {"px_get_entry", "px_call_entry"} => InitsFor(frame[t].lib) = {}
              /\ pc[t] = "px_get_main" =>
                    /\ pending[t] = None
                    /\ InitialisedOnce(ProxyInstance(0, call[t].syscall, frame[t].lib))
              /\ pending[t].tag = "Some" => InitialisedOnce(pending[t].val)
              /\ \A i \in DOMAIN forwarded[t] : InitialisedOnce(forwarded[t][i].inst)
              /\ relayed[t] # <<>> => forwarded[t] # <<>>
        /\ slot.tag = "Some" => InitialisedOnce(slot.val)

\* A second proxy, constructed with another callback than the first, is stored
\* and relays a call; the secondary library was initialised once for each.
C13_Witness ==
    /\ sec.target = "valid"
    /\ slot.tag = "Some" /\ slot.val.id = 2
    /\ Len(sec.inits) = 2
    /\ sec.inits[1].syscall # sec.inits[2].syscall
    /\ sec.inits[2] = [lib |-> slot.val.lib, syscall |-> slot.val.syscall]
    /\ \E t \in Threads : relayed[t] # <<>> /\ forwarded[t][1].inst = slot.val

\* What vmMain(command, args) does when the host calls the secondary library
\* itself: its trampoline unwraps its registry and its dispatcher picks the arm.
Direct(command, args) ==
    LET u == TrampolineUnwrap(sec.slot) IN
      IF u.kind = "panic" THEN u ELSE WrapperArm(ExportsTryFrom(command), args)

\* C14: ProxyModule::vm_main calls vmMain of the secondary library exactly once
\* with the opcode and the twelve arguments it received, and returns what that
\* call returned; the method invoked, the value returned and the fatal outcome
\* are those of the same call made on the secondary library directly.
C14_ProxyIsPureRelay ==
    \A t \in Threads :
        /\ Len(relayed[t]) <= 1
        /\ pc[t] = "vm_main" => relayed[t] = <<>>
        /\ pc[t] \in {"sec_vm_main", "sec_in_method", "sec_returned", "vm_main_ret"}
              \/ (pc[t] = "vm_returned" /\ call[t].op = "vmMain") =>
                 /\ Len(relayed[t]) = 1
                 /\ relayed[t][1].command = call[t].command
                 /\ relayed[t][1].args = call[t].args
                 /\ relayed[t][1].lib = forwarded[t][1].inst.lib
        /\ pc[t] = "sec_vm_main" /\ Panicked(t) =>
                 /\ Direct(call[t].command, call[t].args).kind = "panic"
                 /\ fatal.diag = Direct(call[t].command, call[t].args).diag
        /\ pc[t] \in {"sec_in_method", "sec_returned", "vm_main_ret"}
              \/ (pc[t] = "vm_returned" /\ call[t].op = "vmMain") =>
                 LET d == Direct(call[t].command, call[t].args) IN
                   /\ d.kind = "invoke"
                   /\ InvokedCalls(t) = <<[method |-> d.method, params |-> d.params]>>
                   /\ t \in lock.readers => invoked[t][1].inst = sec.slot.val
        /\ pc[t] = "sec_returned" \/ pc[t] = "vm_main_ret"
              \/ (pc[t] = "vm_returned" /\ call[t].op = "vmMain") =>
                 /\ Len(secret[t]) = 1
                 /\ secret[t][1] =
                       TrampolineReturn(WrapperReturn(invoked[t][1].method, typed[t][1]))
        /\ pc[t] = "vm_main_ret" \/ (pc[t] = "vm_returned" /\ call[t].op = "vmMain") =>
                 vmret[t] = secret[t]
        /\ pc[t] = "vm_returned" /\ call[t].op = "vmMain" => ret[t] = secret[t]
        /\ fatal.kind # "crash"

\* A call relayed with arguments that differ from zero beyond the third has
\* returned to the host; another relayed call has ended in the panic of the
\* dispatcher of the secondary library.
C14_Witness ==
    \E t, u \in Threads :
        /\ pc[t] = "vm_returned" /\ call[t].op = "vmMain"
        /\ relayed[t][1].args[12] # 0
        /\ ret[t] = secret[t]
        /\ pc[u] = "sec_vm_main" /\ Panicked(u)
        /\ fatal.diag = "Unknown game command"

\* The positions of a dllEntry call that lie behind the step of
\* ProxyModule::dll_entry that cannot succeed on the given target.
BehindFailure(target) ==
    CASE target = "missing" ->
            {"px_get_entry", "px_call_entry", "px_get_main", "de_store", "de_returned"}
      [] target = "no_dllEntry" -> {"px_call_entry", "px_get_main", "de_store", "de_returned"}
      [] target = "no_vmMain" -> {"de_store", "de_returned"}
      [] OTHER -> {}

\* The position at which the construction on the given target panics.
FailsAt(target) ==
    CASE target = "missing" -> "de_construct"
      [] target = "no_dllEntry" -> "px_get_entry"
      [] target = "no_vmMain" -> "px_get_main"
      [] OTHER -> "none"

\* C15: when the target library cannot be loaded or lacks dllEntry or vmMain,
\* the construction of the proxy ends in a panic at the step that fails: no
\* proxy instance exists, the slot stays empty as it was before the dllEntry
\* call, no dllEntry call returns and no vmMain call is relayed.
C15_BrokenTargetFailsConstruction ==
    sec.target # "valid" =>
        /\ slot = None
        /\ constructed = 0
        /\ \A t \in Threads :
              /\ pc[t] \notin BehindFailure(sec.target)
              /\ pending[t] = None
              /\ forwarded[t] = <<>> /\ relayed[t] = <<>>
              /\ ~InsideProxy(t)
        /\ \A t \in Threads :
              Panicked(t) /\ call[t].op = "dllEntry" =>
                    /\ pc[t] = FailsAt(sec.target)
                    /\ lock.writer = t
        /\ last.op # "dllEntry"

\* The construction has panicked on a library without vmMain, after the
\* dllEntry of that library was called; a vmMain call of another thread is
\* waiting for the registry.
C15_Witness ==
    \E t, u \in Threads :
        /\ sec.target = "no_vmMain"
        /\ Panicked(t) /\ pc[t] = "px_get_main"
        /\ fatal.diag = "couldn't rent vmMain Symbol"
        /\ slot = None
        /\ pc[u] = "vm_read"

\* The library handles a call through a resolved symbol may still use: those
\* of the stored proxy, of proxies under construction and of the calls inside
\* ProxyModule::vm_main.
HandlesInUse ==
    {slot.val.lib : x \in {y \in {slot} : y.tag = "Some"}}
      \cup {pending[t].val.lib : t \in {u \in Threads : pc[u] = "de_store"}}
      \cup {frame[t].lib : t \in {u \in Threads : pc[u] \in Constructing \ {"de_write", "de_construct"}}}
      \cup {forwarded[t][1].inst.lib : t \in {u \in Threads : InsideProxy(u)}}

\* A step that releases a library handle is the store of a dllEntry call that
\* replaces the proxy owning the handle, while no call is inside vm_main.
ReleasedWithOwner ==
    \A h \in sec.handles \ sec'.handles :
        /\ slot = Some(slot.val) /\ slot.val.lib = h
        /\ slot' # slot
        /\ \E t \in Threads : pc[t] = "de_store" /\ pc'[t] = "de_returned"
        /\ lock.readers = {}
        /\ \A t \in Threads : ~InsideProxy(t) /\ pc[t] # "vm_main_ret"

\* C16: the library handle of the stored proxy and of every call in flight
\* through a proxy is loaded, under every interleaving of dllEntry and vmMain
\* calls; no call jumps through a symbol of an unloaded library; a handle is
\* released only when its proxy is replaced in the slot, and then no call is
\* inside that proxy.
C16_LibraryOutlivesSymbol ==
    /\ [](HandlesInUse \subseteq sec.handles /\ fatal.kind # "crash")
    /\ [][ReleasedWithOwner]_vars

\* A second dllEntry has replaced the proxy: the handle of the first proxy is
\* released, the handle of the second is loaded and a call is relayed through it.
C16_Witness ==
    /\ slot.tag = "Some" /\ slot.val.lib = 2
    /\ sec.handles = {2}
    /\ sec.loads = 2
    /\ \E t \in Threads : pc[t] = "sec_in_method" /\ relayed[t][1].lib = 2

\* C18 as stated: the dllEntry of the secondary library is called only after
\* its vmMain symbol is resolved, hence never in a construction in which that
\* symbol does not resolve.
C18_EntryInvokedAfterBothResolved ==
    /\ \A t \in Threads : pc[t] = "px_get_main" => InitsFor(frame[t].lib) = {}
    /\ sec.target = "no_vmMain" => sec.inits = <<>>

\* C18, amended: a construction loads the library, resolves dllEntry, calls it
\* with the callback received and only then resolves vmMain.  The dllEntry of
\* the secondary library is never called when the load or the resolution of
\* dllEntry fails; it has been called once when vmMain fails to resolve.
C18_EntryInvokedBeforeMainResolved ==
    /\ \A t \in Threads :
          /\ pc[t] \in {"px_get_entry", "px_call_entry", "px_get_main"} =>
                /\ frame[t].lib \in sec.handles
                /\ frame[t].lib = sec.loads
                /\ pending[t] = None
          /\ pc[t] = "px_get_entry" => ~frame[t].dll_entry /\ InitsFor(frame[t].lib) = {}
          /\ pc[t] = "px_call_entry" => frame[t].dll_entry /\ InitsFor(frame[t].lib) = {}
          /\ pc[t] = "px_get_main" =>
                /\ frame[t].dll_entry
                /\ sec.inits[Len(sec.inits)] =
                      [lib |-> frame[t].lib, syscall |-> call[t].syscall]
                /\ Cardinality(InitsFor(frame[t].lib)) = 1
          /\ pc[t] = "de_store" => InitsFor(pending[t].val.lib) # {}
    /\ sec.target = "missing" => sec.loads = 0 /\ sec.inits = <<>>
    /\ sec.target = "no_dllEntry" => sec.inits = <<>>
    /\ sec.target = "no_vmMain" =>
          /\ Len(sec.inits) <= 1
          /\ \A t \in Threads :
                Panicked(t) /\ pc[t] = "px_get_main" =>
                    sec.inits = <<[lib |-> frame[t].lib, syscall |-> call[t].syscall]>>

\* The construction has panicked because vmMain did not resolve, and the
\* dllEntry of the secondary library has run with the callback of that call.
C18_Witness ==
    \E t \in Threads :
        /\ sec.target = "no_vmMain"
        /\ Panicked(t) /\ pc[t] = "px_get_main"
        /\ sec.inits = <<[lib |-> frame[t].lib, syscall |-> "syscallB"]>>
        /\ sec.slot.tag = "Some"

(* ------------------------------------------------- claims on termination *)

\* C21: under fair scheduling every dllEntry call and every vmMain call that
\* has been issued eventually returns or the process terminates: no call waits
\* for the registry lock forever.
C21_EveryCallReturns ==
    \A t \in Threads :
        (pc[t] \in {"de_write", "vm_read"}) ~>
            (pc[t] \in {"de_returned", "vm_returned"} \/ ~Alive)

\* What does hold under SpecLive: a call that has taken the lock returns or
\* ends the process, so the lock is always released again ...
LockHoldersReturn ==
    \A t \in Threads :
        (pc[t] \in {"de_construct", "vm_unwrap"}) ~>
            (pc[t] \in {"de_returned", "vm_returned"} \/ ~Alive)

\* ... and, the dllEntry calls being finitely many, every vmMain call returns
\* or ends the process.  The call left waiting is a dllEntry call that finds a
\* reader inside each time it tries.
VmMainCallsReturn ==
    \A t \in Threads : (pc[t] = "vm_read") ~> (pc[t] = "vm_returned" \/ ~Alive)

====
